---- MODULE Spec2Model ----
(***************************************************************************)
(* Model of HW1.py: the inverted index (InvertedIndex), the boolean RPN    *)
(* query evaluator (BooleanRetrieval) and the query loop of the main       *)
(* script.  Python lists are sequences; list indices are kept 0-based as   *)
(* in the source, so element i of a list L is L[i + 1].  A call that can   *)
(* raise returns a record [raised, value]; raised = "none" is a normal     *)
(* return.                                                                 *)
(***************************************************************************)
EXTENDS Integers, Sequences, FiniteSets, TLC

VARIABLES
    corpus,       \* history: the documents discovered so far, in discovery order
    docs_ids,     \* InvertedIndex.docs_ids: internal id -> original id
    words_dict,   \* InvertedIndex.words_dict: term -> posting list
    internal_id,  \* InvertedIndex.internal_id: the next internal id
    words,        \* the not yet visited part of `words` in the loop of line 46
    pc,           \* position of the program
    error,        \* the exception raised, "none" when there is none
    n_queries,    \* len(queries), the number of lines read from BooleanQueries.txt
    q_count,      \* number of query lines the main loop has taken
    query,        \* run_query: the token list query.lower().split()
    tok_idx,      \* run_query: number of tokens the loop of line 110 has consumed
    stack,        \* run_query: stack of posting lists
    expr_stack,   \* run_query: stack of display strings
    result,       \* the list run_query returned last
    trace,        \* the text printed last after "Final executed query:"
    written,      \* the lines written to Part_2.txt
    m_left,       \* direct call of a merge function: first argument
    m_right,      \* direct call of a merge function: second argument
    m_op,         \* the merge function called directly, "none" before the call
    m_res         \* what the direct call returned or raised

index_vars == <<corpus, docs_ids, words_dict, internal_id, words>>
query_vars == <<n_queries, q_count, query, tok_idx, stack, expr_stack, result, trace, written>>
merge_vars == <<m_left, m_right, m_op, m_res>>
vars == <<index_vars, query_vars, merge_vars, pc, error>>

----------------------------------------------------------------------------
(* Bounds of the model *)

MaxDocs == 3      \* documents in a collection
MaxWords == 2     \* whitespace-separated words in the text fields of a document
MaxVal == 4       \* largest id in the arguments of a direct call of a merge function
MaxTokens == 3    \* tokens in a query line
MaxBatch == 2     \* query lines in BooleanQueries.txt

----------------------------------------------------------------------------
(* Helpers *)

Ok(v) == [raised |-> "none", value |-> v]
Raise(e) == [raised |-> e, value |-> <<>>]

Range(s) == {s[k] : k \in 1..Len(s)}

SeqsUpTo(S, n) == UNION {[1..k -> S] : k \in 0..n}

StrictlyIncreasing(s) == \A k \in 1..(Len(s) - 1) : s[k] < s[k + 1]

\* The sorted, duplicate-free integer sequences over 1..n
PostingLists(n) == {s \in SeqsUpTo(1..n, n) : StrictlyIncreasing(s)}

----------------------------------------------------------------------------
(* BooleanRetrieval.AND_func, lines 168-187 *)

RECURSIVE AND_loop(_, _, _, _, _)
AND_loop(left_postings, right_postings, i, j, and_docs) ==
    IF i < Len(left_postings) /\ j < Len(right_postings)
    THEN IF left_postings[i + 1] = right_postings[j + 1]
         THEN AND_loop(left_postings, right_postings, i + 1, j + 1,
                       Append(and_docs, left_postings[i + 1]))
         ELSE IF left_postings[i + 1] < right_postings[j + 1]
              THEN AND_loop(left_postings, right_postings, i + 1, j, and_docs)
              ELSE AND_loop(left_postings, right_postings, i, j + 1, and_docs)
    ELSE and_docs

\* AND_loop with a fault: the element under the left cursor is emitted
\* whenever it is not the larger one, and only the left cursor advances.
RECURSIVE AND_loop_emits_smaller(_, _, _, _, _)
AND_loop_emits_smaller(left_postings, right_postings, i, j, and_docs) ==
    IF i < Len(left_postings) /\ j < Len(right_postings)
    THEN IF left_postings[i + 1] <= right_postings[j + 1]
         THEN AND_loop_emits_smaller(left_postings, right_postings, i + 1, j,
                                     Append(and_docs, left_postings[i + 1]))
         ELSE AND_loop_emits_smaller(left_postings, right_postings, i, j + 1, and_docs)
    ELSE and_docs

AND_func_emits_smaller(left_postings, right_postings) ==
    AND_loop_emits_smaller(left_postings, right_postings, 0, 0, <<>>)

AND_func(left_postings, right_postings) ==
    AND_loop(left_postings, right_postings, 0, 0, <<>>)

----------------------------------------------------------------------------
(* BooleanRetrieval.OR_func, lines 189-221 *)

\* The while loop of lines 199-209; the value is the state it ends in.
RECURSIVE OR_loop(_, _, _, _, _)
OR_loop(left_postings, right_postings, i, j, union_docs) ==
    IF i < Len(left_postings) /\ j < Len(right_postings)
    THEN IF left_postings[i + 1] < right_postings[j + 1]
         THEN OR_loop(left_postings, right_postings, i + 1, j,
                      Append(union_docs, left_postings[i + 1]))
         ELSE IF left_postings[i + 1] > right_postings[j + 1]
              THEN OR_loop(left_postings, right_postings, i, j + 1,
                           Append(union_docs, right_postings[j + 1]))
              ELSE OR_loop(left_postings, right_postings, i + 1, j + 1,
                           Append(union_docs, left_postings[i + 1]))
    ELSE [i |-> i, j |-> j, union_docs |-> union_docs]

\* Lines 211-221.  The drain loops and the test of line 216 read `a` and
\* `b`, which are neither locals of OR_func (left_postings, right_postings,
\* union_docs, i, j) nor names bound at module level: the first of them that
\* is evaluated raises NameError.  Line 211 reads no such name; when its test
\* holds, the loop header of line 212 reads `b`; when it does not, the test
\* of line 216 reads `b`.  No path reaches the return of line 221.
OR_func(left_postings, right_postings) ==
    LET m == OR_loop(left_postings, right_postings, 0, 0, <<>>)
    IN  IF m.i = Len(left_postings) /\ m.j # Len(right_postings)
        THEN Raise("NameError")      \* line 212: len(b)
        ELSE Raise("NameError")      \* line 216: len(b)

----------------------------------------------------------------------------
(* InvertedIndex.get_number_of_documents, lines 55-59 *)

\* Line 59 with a fault: the counter is returned as it is.
get_number_of_documents_off_by_one(iid) == iid

get_number_of_documents(iid) == iid - 1

----------------------------------------------------------------------------
(* BooleanRetrieval.NOT_func, lines 223-248 *)

\* The while loop of lines 236-242; all_docs[j] raises IndexError when j
\* is past the end of all_docs.
RECURSIVE NOT_walk(_, _, _, _, _)
NOT_walk(posting_list, all_docs, i, j, not_docs) ==
    IF i < Len(posting_list)
    THEN IF j >= Len(all_docs)
         THEN [raised |-> "IndexError", j |-> j, not_docs |-> not_docs]
         ELSE IF all_docs[j + 1] # posting_list[i + 1]
              THEN NOT_walk(posting_list, all_docs, i, j + 1,
                            Append(not_docs, all_docs[j + 1]))
              ELSE NOT_walk(posting_list, all_docs, i + 1, j + 1, not_docs)
    ELSE [raised |-> "none", j |-> j, not_docs |-> not_docs]

\* The while loop of lines 244-246
RECURSIVE NOT_drain(_, _, _, _)
NOT_drain(all_docs, num_docs, j, not_docs) ==
    IF j < num_docs
    THEN NOT_drain(all_docs, num_docs, j + 1, Append(not_docs, all_docs[j + 1]))
    ELSE not_docs

\* NOT_func with a fault: the trailing loop of lines 244-246 is left out.
NOT_func_no_drain(posting_list, iid) ==
    LET num_docs == get_number_of_documents(iid)
        all_docs == [k \in 1..num_docs |-> k]
        w == NOT_walk(posting_list, all_docs, 0, 0, <<>>)
    IN  IF w.raised # "none" THEN Raise(w.raised) ELSE Ok(w.not_docs)

\* iid is self.inverted_index.internal_id
NOT_func(posting_list, iid) ==
    LET num_docs == get_number_of_documents(iid)
        all_docs == [k \in 1..num_docs |-> k]
        w == NOT_walk(posting_list, all_docs, 0, 0, <<>>)
    IN  IF w.raised # "none"
        THEN Raise(w.raised)
        ELSE Ok(NOT_drain(all_docs, num_docs, w.j, w.not_docs))

----------------------------------------------------------------------------
(* InvertedIndex.__init__, lines 6-53, and the read operations *)

\* The words of the documents of the collection, and their identifiers
DocVocab == {"africa", "Africa"}
DocNos == {"AP-1", "AP-2"}

\* A <TEXT> field is the sequence of its whitespace-separated words.  A
\* document has no, one or two <TEXT> fields.
Blocks == SeqsUpTo(DocVocab, MaxWords)
TextFields ==
    {<<>>} \cup {<<b>> : b \in Blocks}
    \cup {<<b1, b2>> : b1, b2 \in {b \in Blocks : b # <<>>}}

TextLen(text_blocks) ==
    IF Len(text_blocks) = 0 THEN 0
    ELSE IF Len(text_blocks) = 1 THEN Len(text_blocks[1])
    ELSE Len(text_blocks[1]) + Len(text_blocks[2])

\* The documents a file can hold: with a <DOCNO> field, or without one.
Docs ==
    {[has_docno |-> TRUE, docno |-> d, text_blocks |-> t] :
        d \in DocNos, t \in {x \in TextFields : TextLen(x) <= MaxWords}}
    \cup {[has_docno |-> FALSE, docno |-> "", text_blocks |-> <<>>]}

\* Lines 43-44 and the split of line 45: " ".join(text_blocks).split() is
\* the words of all text fields, in order.
RECURSIVE JoinSplit(_)
JoinSplit(text_blocks) ==
    IF text_blocks = <<>> THEN <<>>
    ELSE Head(text_blocks) \o JoinSplit(Tail(text_blocks))

\* Lines 47-50 with a fault: the id is put in front of the posting list.
AddPosting_prepends(wd, word, iid) ==
    IF word \notin DOMAIN wd
    THEN [w \in DOMAIN wd \cup {word} |-> IF w = word THEN <<iid>> ELSE wd[w]]
    ELSE [wd EXCEPT ![word] = <<iid>> \o @]

\* Lines 47-50
AddPosting(wd, word, iid) ==
    IF word \notin DOMAIN wd
    THEN [w \in DOMAIN wd \cup {word} |-> IF w = word THEN <<iid>> ELSE wd[w]]
    ELSE [wd EXCEPT ![word] = Append(@, iid)]

\* Lines 61-65: a dictionary lookup, KeyError for a missing key
get_real_doc_id(ids, iid) ==
    IF iid \in DOMAIN ids THEN Ok(ids[iid]) ELSE [raised |-> "KeyError", value |-> ""]

\* Lines 67-74
get_posting_list(wd, term) ==
    IF term \in DOMAIN wd THEN wd[term] ELSE <<>>

\* What the history keeps of a discovered document: its identifier, the set
\* of words of its text and those of them that occur more than once.
Discovered(doc) ==
    LET ws == JoinSplit(doc.text_blocks)
    IN  [docno |-> doc.docno,
         terms |-> Range(ws),
         repeated |-> {w \in Range(ws) : Cardinality({k \in 1..Len(ws) : ws[k] = w}) > 1}]

\* Line 30: the loop takes the next file of the directory; line 34.
OpenFile ==
    /\ pc = "listdir"
    /\ pc' = "file"
    /\ UNCHANGED <<index_vars, query_vars, merge_vars, error>>

\* Lines 36-45: the loop takes the next document of the file.
DiscoverDoc(doc) ==
    /\ pc = "file"
    /\ internal_id <= MaxDocs
    /\ IF ~doc.has_docno
       THEN \* line 38: search() returns None, None.group raises
            /\ pc' = "raised"
            /\ error' = "AttributeError"
            /\ UNCHANGED index_vars
       ELSE /\ docs_ids' = [k \in DOMAIN docs_ids \cup {internal_id} |->
                               IF k = internal_id THEN doc.docno ELSE docs_ids[k]]
            /\ words' = Range(JoinSplit(doc.text_blocks))
            /\ corpus' = Append(corpus, Discovered(doc))
            /\ pc' = "words"
            /\ UNCHANGED <<words_dict, internal_id, error>>
    /\ UNCHANGED <<query_vars, merge_vars>>

\* Lines 46-50: one iteration of the loop over the set `words`, whose
\* iteration order is not determined.
AppendWord ==
    /\ pc = "words"
    /\ \E word \in words :
        /\ words_dict' = AddPosting(words_dict, word, internal_id)
        /\ words' = words \ {word}
    /\ UNCHANGED <<corpus, docs_ids, internal_id, pc, error, query_vars, merge_vars>>

\* Line 53, after the last word of the document
EndDoc ==
    /\ pc = "words"
    /\ words = {}
    /\ internal_id' = internal_id + 1
    /\ pc' = "file"
    /\ UNCHANGED <<corpus, docs_ids, words_dict, words, error, query_vars, merge_vars>>

\* Line 36: the documents of the file are exhausted.
EndFile ==
    /\ pc = "file"
    /\ pc' = "listdir"
    /\ UNCHANGED <<index_vars, query_vars, merge_vars, error>>

\* Line 30: the files are exhausted; the constructor returns (line 258).
EndListdir ==
    /\ pc = "listdir"
    /\ pc' = "built"
    /\ UNCHANGED <<index_vars, query_vars, merge_vars, error>>

\* An exception nobody catches ends the script (lines 258 and 270 are not
\* inside a try statement).
MainAbort ==
    /\ pc = "raised"
    /\ pc' = "crashed"
    /\ UNCHANGED <<index_vars, query_vars, merge_vars, error>>

\* Lines 17-20
InitIndex ==
    /\ corpus = <<>>
    /\ docs_ids = <<>>
    /\ words_dict = [w \in {} |-> <<>>]
    /\ internal_id = 1
    /\ words = {}

InitQuery ==
    /\ n_queries = 0
    /\ q_count = 0
    /\ query = <<>>
    /\ tok_idx = 0
    /\ stack = <<>>
    /\ expr_stack = <<>>
    /\ result = <<>>
    /\ trace = ""
    /\ written = <<>>

InitMergeIdle ==
    /\ m_left = <<>>
    /\ m_right = <<>>
    /\ m_op = "none"
    /\ m_res = Ok(<<>>)

----------------------------------------------------------------------------
(* BooleanRetrieval.run_query, lines 85-154, and change_to_docs_ids *)

\* The tokens of the query lines, as written in the file
QueryTokens == {"africa", "Airlines", "AND", "or", "NOT"}
Queries == SeqsUpTo(QueryTokens, MaxTokens)

\* str.lower on the words of the model
Lower(tok) ==
    CASE tok = "Africa" -> "africa"
      [] tok = "Airlines" -> "airlines"
      [] tok = "AND" -> "and"
      [] tok = "OR" -> "or"
      [] tok = "NOT" -> "not"
      [] OTHER -> tok

\* Line 95: query.lower().split()
LowerSplit(raw) == [k \in 1..Len(raw) |-> Lower(raw[k])]

\* Line 107
OPERATORS == {"and", "or", "not"}

\* Lines 156-166: get_real_doc_id of every id, the first KeyError ends it
RECURSIVE change_to_docs_ids(_, _)
change_to_docs_ids(ids, internal_id_docs) ==
    IF internal_id_docs = <<>> THEN Ok(<<>>)
    ELSE LET last == get_real_doc_id(ids, internal_id_docs[Len(internal_id_docs)])
             front == change_to_docs_ids(ids, SubSeq(internal_id_docs, 1,
                                                      Len(internal_id_docs) - 1))
         IN  IF front.raised # "none" THEN front
             ELSE IF last.raised # "none" THEN Raise(last.raised)
             ELSE Ok(Append(front.value, last.value))

\* Line 122 (and 130 with OR): a_expr is the left operand's text
BinaryExpr(a_expr, op, b_expr) == "(" \o a_expr \o " " \o op \o " " \o b_expr \o ")"

\* Line 136
NotExpr(a_expr) == "(NOT " \o a_expr \o ")"

\* Line 146 with a fault: the operands' texts are exchanged.
ImplicitAndExpr_swapped(a_expr, b_expr) == "(" \o a_expr \o " AND " \o b_expr \o ")"

\* Line 146: here a_expr is the text popped first, the right operand's
ImplicitAndExpr(a_expr, b_expr) == "(" \o b_expr \o " AND " \o a_expr \o ")"

\* Line 271: ' '.join(result) + '\n'
RECURSIVE JoinLine(_)
JoinLine(ids) ==
    IF ids = <<>> THEN "\n"
    ELSE IF Len(ids) = 1 THEN ids[1] \o "\n"
    ELSE ids[1] \o " " \o JoinLine(Tail(ids))

Top(s) == s[Len(s)]
Pop(s) == SubSeq(s, 1, Len(s) - 1)

\* Lines 261-268: the query lines are read and Part_2.txt is opened; maxn
\* bounds the number of lines of the file.  The text of a line is drawn
\* when the loop of line 269 takes it.
OpenQueries(maxn) ==
    /\ pc = "built"
    /\ \E n \in 0..maxn : n_queries' = n
    /\ pc' = "loop"
    /\ UNCHANGED <<index_vars, merge_vars, error, q_count, query, tok_idx, stack,
                   expr_stack, result, trace, written>>

\* Lines 269-270 and 92-99: the loop takes a line of one token and
\* run_query returns its posting list, converted.
SingleTermQuery ==
    /\ pc = "loop"
    /\ q_count < n_queries
    /\ \E raw \in Queries :
        /\ Len(LowerSplit(raw)) = 1
        /\ query' = LowerSplit(raw)
        /\ LET r == change_to_docs_ids(docs_ids,
                                       get_posting_list(words_dict, LowerSplit(raw)[1]))
           IN  IF r.raised # "none"
               THEN pc' = "raised" /\ error' = r.raised /\ UNCHANGED result
               ELSE pc' = "returned" /\ result' = r.value /\ UNCHANGED error
    /\ q_count' = q_count + 1
    /\ UNCHANGED <<index_vars, merge_vars, n_queries, tok_idx, stack, expr_stack,
                   trace, written>>

\* Lines 269-270 and 92-107: the loop takes a line of no or several tokens
\* and run_query starts its scan.
BeginScan ==
    /\ pc = "loop"
    /\ q_count < n_queries
    /\ \E raw \in Queries :
        /\ Len(LowerSplit(raw)) # 1
        /\ query' = LowerSplit(raw)
    /\ q_count' = q_count + 1
    /\ stack' = <<>>
    /\ expr_stack' = <<>>
    /\ tok_idx' = 0
    /\ pc' = "scan"
    /\ UNCHANGED <<index_vars, merge_vars, n_queries, error, result, trace, written>>

\* Lines 111-114
ScanTerm ==
    /\ pc = "scan"
    /\ tok_idx < Len(query)
    /\ query[tok_idx + 1] \notin OPERATORS
    /\ stack' = Append(stack, get_posting_list(words_dict, query[tok_idx + 1]))
    /\ expr_stack' = Append(expr_stack, query[tok_idx + 1])
    /\ tok_idx' = tok_idx + 1
    /\ UNCHANGED <<index_vars, merge_vars, n_queries, q_count, query, result, trace,
                   written, pc, error>>

\* Lines 116-122; list.pop() of an empty list raises IndexError.
ScanAnd ==
    /\ pc = "scan"
    /\ tok_idx < Len(query)
    /\ query[tok_idx + 1] = "and"
    /\ IF Len(stack) < 2
       THEN /\ stack' = <<>>
            /\ pc' = "raised"
            /\ error' = "IndexError"
            /\ UNCHANGED <<expr_stack, tok_idx>>
       ELSE LET a == Top(stack)
                b == Top(Pop(stack))
                b_expr == Top(expr_stack)
                a_expr == Top(Pop(expr_stack))
            IN  /\ stack' = Append(Pop(Pop(stack)), AND_func(a, b))
                /\ expr_stack' = Append(Pop(Pop(expr_stack)),
                                        BinaryExpr(a_expr, "AND", b_expr))
                /\ tok_idx' = tok_idx + 1
                /\ UNCHANGED <<pc, error>>
    /\ UNCHANGED <<index_vars, merge_vars, n_queries, q_count, query, result, trace,
                   written>>

\* Lines 124-130
ScanOr ==
    /\ pc = "scan"
    /\ tok_idx < Len(query)
    /\ query[tok_idx + 1] = "or"
    /\ IF Len(stack) < 2
       THEN /\ stack' = <<>>
            /\ pc' = "raised"
            /\ error' = "IndexError"
            /\ UNCHANGED <<expr_stack, tok_idx>>
       ELSE LET a == Top(stack)
                b == Top(Pop(stack))
                b_expr == Top(expr_stack)
                a_expr == Top(Pop(expr_stack))
                r == OR_func(a, b)
            IN  IF r.raised # "none"
                THEN /\ stack' = Pop(Pop(stack))
                     /\ pc' = "raised"
                     /\ error' = r.raised
                     /\ UNCHANGED <<expr_stack, tok_idx>>
                ELSE /\ stack' = Append(Pop(Pop(stack)), r.value)
                     /\ expr_stack' = Append(Pop(Pop(expr_stack)),
                                             BinaryExpr(a_expr, "OR", b_expr))
                     /\ tok_idx' = tok_idx + 1
                     /\ UNCHANGED <<pc, error>>
    /\ UNCHANGED <<index_vars, merge_vars, n_queries, q_count, query, result, trace,
                   written>>

\* Lines 132-136
ScanNot ==
    /\ pc = "scan"
    /\ tok_idx < Len(query)
    /\ query[tok_idx + 1] = "not"
    /\ IF Len(stack) < 1
       THEN /\ pc' = "raised"
            /\ error' = "IndexError"
            /\ UNCHANGED <<stack, expr_stack, tok_idx>>
       ELSE LET a == Top(stack)
                a_expr == Top(expr_stack)
                r == NOT_func(a, internal_id)
            IN  IF r.raised # "none"
                THEN /\ stack' = Pop(stack)
                     /\ pc' = "raised"
                     /\ error' = r.raised
                     /\ UNCHANGED <<expr_stack, tok_idx>>
                ELSE /\ stack' = Append(Pop(stack), r.value)
                     /\ expr_stack' = Append(Pop(expr_stack), NotExpr(a_expr))
                     /\ tok_idx' = tok_idx + 1
                     /\ UNCHANGED <<pc, error>>
    /\ UNCHANGED <<index_vars, merge_vars, n_queries, q_count, query, result, trace,
                   written>>

\* Lines 138-154, after the last token
EndScan ==
    /\ pc = "scan"
    /\ tok_idx = Len(query)
    /\ IF Len(stack) = 2
       THEN LET a == Top(stack)
                b == Top(Pop(stack))
                a_expr == Top(expr_stack)
                b_expr == Top(Pop(expr_stack))
                r == change_to_docs_ids(docs_ids, AND_func(a, b))
            IN  /\ stack' = <<>>
                /\ expr_stack' = <<ImplicitAndExpr(a_expr, b_expr)>>
                /\ trace' = ImplicitAndExpr(a_expr, b_expr)
                /\ IF r.raised # "none"
                   THEN pc' = "raised" /\ error' = r.raised /\ UNCHANGED result
                   ELSE pc' = "returned" /\ result' = r.value /\ UNCHANGED error
       ELSE IF Len(stack) = 0
       THEN \* line 149: pop of the empty stack
            /\ pc' = "raised"
            /\ error' = "IndexError"
            /\ UNCHANGED <<stack, expr_stack, trace, result>>
       ELSE LET r == change_to_docs_ids(docs_ids, Top(stack))
            IN  /\ stack' = Pop(stack)
                /\ trace' = Top(expr_stack)
                /\ UNCHANGED expr_stack
                /\ IF r.raised # "none"
                   THEN pc' = "raised" /\ error' = r.raised /\ UNCHANGED result
                   ELSE pc' = "returned" /\ result' = r.value /\ UNCHANGED error
    /\ UNCHANGED <<index_vars, merge_vars, n_queries, q_count, query, tok_idx, written>>

\* Line 271
MainWrite ==
    /\ pc = "returned"
    /\ written' = Append(written, JoinLine(result))
    /\ pc' = "loop"
    /\ UNCHANGED <<index_vars, merge_vars, error, n_queries, q_count, query, tok_idx,
                   stack, expr_stack, result, trace>>

\* Line 269: the lines are exhausted; Part_2.txt is closed.
MainEnd ==
    /\ pc = "loop"
    /\ q_count = n_queries
    /\ pc' = "done"
    /\ UNCHANGED <<index_vars, query_vars, merge_vars, error>>

\* The documents of the collections the queries are run on
QDocs ==
    {[has_docno |-> TRUE, docno |-> "AP-1", text_blocks |-> <<<<"africa">>>>],
     [has_docno |-> TRUE, docno |-> "AP-2", text_blocks |-> <<<<"Africa">>, <<"airlines">>>>],
     [has_docno |-> TRUE, docno |-> "AP-3", text_blocks |-> <<<<"airlines", "africa">>>>],
     [has_docno |-> TRUE, docno |-> "AP-4", text_blocks |-> <<>>]}

BuildDoc == \E doc \in Docs : DiscoverDoc(doc)

BuildQDoc == \E doc \in QDocs : DiscoverDoc(doc)

InitBuild ==
    /\ InitIndex /\ InitQuery /\ InitMergeIdle
    /\ pc = "listdir"
    /\ error = "none"

NextBuild ==
    \/ OpenFile
    \/ BuildDoc
    \/ AppendWord
    \/ EndDoc
    \/ EndFile
    \/ EndListdir
    \/ MainAbort

\* The construction of the index alone, over the documents of Docs
SpecBuild == InitBuild /\ [][NextBuild]_vars

Init == InitBuild

ReadQueries == OpenQueries(MaxBatch)

Next ==
    \/ OpenFile
    \/ BuildQDoc
    \/ AppendWord
    \/ EndDoc
    \/ EndFile
    \/ EndListdir
    \/ ReadQueries
    \/ SingleTermQuery
    \/ BeginScan
    \/ ScanTerm
    \/ ScanAnd
    \/ ScanOr
    \/ ScanNot
    \/ EndScan
    \/ MainWrite
    \/ MainEnd
    \/ MainAbort

\* The main script, lines 251-271: the index of a collection of documents
\* of QDocs, then the batch of queries
Spec == Init /\ [][Next]_vars

ReadOneQuery == OpenQueries(1)

NextOneQuery ==
    \/ OpenFile
    \/ BuildQDoc
    \/ AppendWord
    \/ EndDoc
    \/ EndFile
    \/ EndListdir
    \/ ReadOneQuery
    \/ SingleTermQuery
    \/ BeginScan
    \/ ScanTerm
    \/ ScanAnd
    \/ ScanOr
    \/ ScanNot
    \/ EndScan
    \/ MainWrite
    \/ MainEnd
    \/ MainAbort

\* The main script on a query file of at most one line
SpecOneQuery == Init /\ [][NextOneQuery]_vars

----------------------------------------------------------------------------
(* The merge functions applied to given posting lists *)

\* An index of n documents without text, and two posting lists
InitMerge ==
    /\ \E n \in 0..MaxDocs :
        /\ internal_id = n + 1
        /\ docs_ids = [k \in 1..n |-> "AP-1"]
        /\ corpus = [k \in 1..n |-> [docno |-> "AP-1", terms |-> {}, repeated |-> {}]]
    /\ words_dict = [w \in {} |-> <<>>]
    /\ words = {}
    /\ InitQuery
    /\ pc = "built"
    /\ error = "none"
    /\ m_left \in PostingLists(MaxVal)
    /\ m_right \in PostingLists(MaxVal)
    /\ m_op = "none"
    /\ m_res = Ok(<<>>)

ApplyAND ==
    /\ m_op = "none"
    /\ m_op' = "AND"
    /\ m_res' = Ok(AND_func(m_left, m_right))
    /\ UNCHANGED <<index_vars, query_vars, m_left, m_right, pc, error>>

ApplyOR ==
    /\ m_op = "none"
    /\ m_op' = "OR"
    /\ m_res' = OR_func(m_left, m_right)
    /\ UNCHANGED <<index_vars, query_vars, m_left, m_right, pc, error>>

ApplyNOT ==
    /\ m_op = "none"
    /\ m_op' = "NOT"
    /\ m_res' = NOT_func(m_left, internal_id)
    /\ UNCHANGED <<index_vars, query_vars, m_left, m_right, pc, error>>

NextMerge == ApplyAND \/ ApplyOR \/ ApplyNOT

SpecMerge == InitMerge /\ [][NextMerge]_vars

----------------------------------------------------------------------------
(* What the claims are stated with *)

RECURSIVE SortedSeqOf(_)
SortedSeqOf(S) ==
    IF S = {} THEN <<>>
    ELSE LET m == CHOOSE x \in S : \A y \in S : x <= y
         IN  <<m>> \o SortedSeqOf(S \ {m})

Occurrences(s, x) == Cardinality({k \in 1..Len(s) : s[k] = x})

Min(x, y) == IF x <= y THEN x ELSE y

\* The internal ids of the index: those of the documents discovered
Universe == 1..Len(corpus)

\* The identifiers of the discovered documents with the given internal ids
OriginalIdsOf(ids) == [k \in 1..Len(ids) |-> corpus[ids[k]].docno]

\* The value of an RPN token list over sets of internal ids: the stack of
\* sets it leaves, and whether every operator found its operands.
RECURSIVE Denote(_, _, _)
Denote(toks, k, stk) ==
    IF k > Len(toks) THEN [ok |-> TRUE, stk |-> stk]
    ELSE IF toks[k] = "not"
         THEN IF Len(stk) < 1 THEN [ok |-> FALSE, stk |-> stk]
              ELSE Denote(toks, k + 1, Append(Pop(stk), Universe \ Top(stk)))
    ELSE IF toks[k] = "and"
         THEN IF Len(stk) < 2 THEN [ok |-> FALSE, stk |-> stk]
              ELSE Denote(toks, k + 1,
                          Append(Pop(Pop(stk)), Top(Pop(stk)) \cap Top(stk)))
    ELSE IF toks[k] = "or"
         THEN IF Len(stk) < 2 THEN [ok |-> FALSE, stk |-> stk]
              ELSE Denote(toks, k + 1,
                          Append(Pop(Pop(stk)), Top(Pop(stk)) \cup Top(stk)))
    ELSE Denote(toks, k + 1, Append(stk, Range(get_posting_list(words_dict, toks[k]))))

WellFormed(toks) ==
    LET d == Denote(toks, 1, <<>>) IN d.ok /\ Len(d.stk) = 1

----------------------------------------------------------------------------
(* The claims *)

\* C1: for strictly increasing a and b, OR_func(a, b) returns normally and
\* its result is strictly increasing and holds exactly the union of a and b.
C1_OrIsUnion ==
    m_op = "OR" =>
        /\ m_res.raised = "none"
        /\ StrictlyIncreasing(m_res.value)
        /\ Range(m_res.value) = Range(m_left) \cup Range(m_right)

\* C2: for strictly increasing a and b, AND_func(a, b) is strictly increasing
\* and holds exactly the intersection of a and b; it equals AND_func(b, a),
\* is no longer than the shorter argument, and is empty when one is empty.
C2_AndIsIntersection ==
    m_op = "AND" =>
        /\ m_res.raised = "none"
        /\ StrictlyIncreasing(m_res.value)
        /\ Range(m_res.value) = Range(m_left) \cap Range(m_right)
        /\ m_res.value = AND_func(m_right, m_left)
        /\ Len(m_res.value) <= Min(Len(m_left), Len(m_right))
        /\ (m_left = <<>> \/ m_right = <<>>) => m_res.value = <<>>

\* AND_func has been applied to two different lists of two or more ids that
\* share some id and do not share some other.
C2_Witness ==
    /\ m_op = "AND"
    /\ Len(m_left) >= 2 /\ Len(m_right) >= 2
    /\ m_left # m_right
    /\ m_res.value # <<>>

\* C3: in an index of N documents, for a strictly increasing list a of ids
\* of 1..N, NOT_func(a) is the strictly increasing list of the ids of 1..N
\* not in a; NOT of the empty list is 1..N, NOT of 1..N is empty, and
\* NOT_func(NOT_func(a)) is a.
C3_NotIsComplement ==
    (m_op = "NOT" /\ Range(m_left) \subseteq Universe) =>
        /\ m_res.raised = "none"
        /\ StrictlyIncreasing(m_res.value)
        /\ Range(m_res.value) = Universe \ Range(m_left)
        /\ m_left = <<>> => m_res.value = [k \in Universe |-> k]
        /\ Range(m_left) = Universe => m_res.value = <<>>
        /\ NOT_func(m_res.value, internal_id).raised = "none"
        /\ NOT_func(m_res.value, internal_id).value = m_left

\* NOT_func has been applied, in an index of two or more documents, to a
\* list that holds some ids of the universe and not its last one.
C3_Witness ==
    /\ m_op = "NOT"
    /\ Len(corpus) >= 2
    /\ m_left # <<>>
    /\ Range(m_left) \subseteq Universe
    /\ Len(corpus) \notin Range(m_left)
    /\ m_res.raised = "none"

\* C4: for a well-formed RPN query of two or more tokens, run_query returns
\* the value of the boolean expression the RPN denotes (NOT of the last
\* pushed list, AND/OR of the last two), mapped to original ids.
C4_RpnValueReturned ==
    (pc \in {"returned", "raised"} /\ Len(query) >= 2 /\ WellFormed(query)) =>
        /\ pc = "returned"
        /\ result = OriginalIdsOf(SortedSeqOf(Top(Denote(query, 1, <<>>).stk)))

\* C5: in every state of the construction, after each single append, every
\* posting list of words_dict is strictly increasing, and a document in
\* which a term occurs once or more has put its internal id exactly once
\* into the term's posting list.
C5_PostingsStrictlyIncreasing ==
    /\ \A t \in DOMAIN words_dict : StrictlyIncreasing(words_dict[t])
    /\ \A d \in 1..Len(corpus) : \A t \in corpus[d].terms :
        (d < internal_id \/ (pc = "words" /\ t \notin words)) =>
            /\ t \in DOMAIN words_dict
            /\ Occurrences(words_dict[t], d) = 1

\* The second document of the collection has been indexed, a term occurs
\* in it more than once, and the term's posting list holds two ids.
C5_Witness ==
    /\ Len(corpus) = 2
    /\ internal_id = 3
    /\ \E t \in corpus[2].repeated : Len(words_dict[t]) = 2

\* C6: a query of the single term t returns the original ids of exactly the
\* documents whose text holds t compared case-insensitively, in ascending
\* order of internal id.
C6_SingleTermCaseInsensitive ==
    (pc = "returned" /\ Len(query) = 1) =>
        result = OriginalIdsOf(SortedSeqOf(
                    {d \in Universe : \E w \in corpus[d].terms : Lower(w) = query[1]}))

\* C7: after indexing N documents get_number_of_documents() is N, the keys
\* of docs_ids are 1..N, get_real_doc_id(i) is the identifier of the i-th
\* document discovered, and get_real_doc_id fails for 0 and for N + 1.
C7_IdsContiguous ==
    pc = "built" =>
        /\ get_number_of_documents(internal_id) = Len(corpus)
        /\ DOMAIN docs_ids = 1..Len(corpus)
        /\ \A k \in 1..Len(corpus) :
            /\ get_real_doc_id(docs_ids, k).raised = "none"
            /\ get_real_doc_id(docs_ids, k).value = corpus[k].docno
        /\ get_real_doc_id(docs_ids, 0).raised = "KeyError"
        /\ get_real_doc_id(docs_ids, get_number_of_documents(internal_id) + 1).raised
               = "KeyError"

\* The index of two documents with different identifiers has been built,
\* the first of them without text.
C7_Witness ==
    /\ pc = "built"
    /\ Len(corpus) = 2
    /\ corpus[1].terms = {}
    /\ corpus[2].terms # {}
    /\ corpus[1].docno # corpus[2].docno

\* C8: when the stack holds exactly two posting lists after the last token,
\* run_query returns their intersection, converted to original ids, and
\* prints "(left AND right)" with the operands in their order in the query.
C8_ImplicitAnd ==
    [][(pc = "scan" /\ tok_idx = Len(query) /\ Len(stack) = 2) =>
          /\ pc' = "returned"
          /\ result' = OriginalIdsOf(SortedSeqOf(Range(stack[1]) \cap Range(stack[2])))
          /\ trace' = "(" \o expr_stack[1] \o " AND " \o expr_stack[2] \o ")"]_vars

\* The query "africa airlines" has returned a document that holds both
\* terms, in an index where a document holds only one of them.
C8_Witness ==
    /\ pc = "returned"
    /\ query = <<"africa", "airlines">>
    /\ trace = "(africa AND airlines)"
    /\ Len(result) = 1
    /\ Len(get_posting_list(words_dict, "africa")) = 2

\* C9: when the stack depth after the last token is zero or more than two,
\* run_query signals an error and returns no list.
C9_BadDepthSignalled ==
    [][(pc = "scan" /\ tok_idx = Len(query) /\ Len(stack) \notin {1, 2}) =>
          pc' = "raised"]_vars

\* C10: a query that applies an operator to too few operands does not end
\* the batch: when the script has ended on it, no query line is left.
C10_BadQueryDoesNotAbortBatch ==
    (pc = "crashed" /\ error = "IndexError" /\ tok_idx < Len(query)) =>
        q_count = n_queries

====
